---- MODULE Spec2Model ----
(***************************************************************************)
(* Grade prediction and course recommendation service.                     *)
(*                                                                         *)
(* Fixed point.  Grades handled by GradePredictor.predict and by the       *)
(* /predict-grade handler are integers in thousandths of a grade point     *)
(* (4.0 is 4000, 3.65 is 3650), so that rounding to two decimals is a real *)
(* operation.  Ratings of the user-item matrix are in tenths of a grade    *)
(* point (3.5 is 35) and similarities and content scores in thousandths    *)
(* (1.0 is 1000, 0.5 is 500).                                              *)
(***************************************************************************)
EXTENDS Integers, Sequences, FiniteSets, TLC

VARIABLES
    grade_predictor,   \* main.py grade_predictor: the loaded grade artifact, or not loaded
    recommender,       \* main.py recommender: the loaded recommender artifact, or not loaded
    pc,                \* position of the one call in flight: "idle", "built", "done"
    locals,            \* local variables of a handler between its store reads and its reply
    ret                \* what the last call returned (op = "none" when nothing is pending)

vars == <<grade_predictor, recommender, pc, locals, ret>>

\* ------------------------------------------------------------------ bounds

\* raw model outputs of a direct predict call range over
\* -RawMargin .. MaxGrade + RawMargin
RawMargin == 6
\* raw model outputs of a /predict-grade request lie within NearBreak thousandths
\* of a letter breakpoint or of an end of the grade range
NearBreak == 3
\* the n of a recommend or get_popular_courses call ranges over -MaxN .. MaxN
MaxN == 3
\* longest list of completed enrollments / interaction records read from the store
MaxRecords == 2

\* dictionaries in one call of predict_batch
MaxBatch == 2

\* ------------------------------------------------------------------ constants

MinGrade == 0
MaxGrade == 4000
FallbackStd == 200
\* 1.96 in thousandths
CIMultiplier == 1960
MaxTrees == 10

None == <<>>
Some(v) == <<v>>
IsNone(o) == o = <<>>
Val(o) == o[1]

Min(a, b) == IF a <= b THEN a ELSE b
Max(a, b) == IF a >= b THEN a ELSE b

RECURSIVE SumSeq(_)
SumSeq(s) == IF s = <<>> THEN 0 ELSE s[1] + SumSeq(Tail(s))

\* largest r with r * r <= x
RECURSIVE ISqrtIn(_, _, _)
ISqrtIn(x, lo, hi) ==
    IF lo >= hi THEN lo
    ELSE LET mid == (lo + hi + 1) \div 2
         IN  IF mid * mid <= x THEN ISqrtIn(x, mid, hi) ELSE ISqrtIn(x, lo, mid - 1)
ISqrt(x) == ISqrtIn(x, 0, Min(x, 46340))

\* ------------------------------------------------------------------ GradePredictor

\* a clip that forgets the upper bound
ClipLowerOnly(x, lo, hi) == IF x < lo THEN lo ELSE x

\* np.clip(pred, 0.0, 4.0)
Clip(x, lo, hi) == IF x < lo THEN lo ELSE IF x > hi THEN hi ELSE x

\* the trained feature-name list of the artifact
FeatureNames ==
    << "hist_mean_grade", "hist_std_grade", "hist_course_count",
       "hist_avg_attendance", "hist_avg_completion", "credits", "topic_count",
       "difficulty_num", "high_school_gpa", "year", "age", "attendance_rate",
       "assignment_completion_rate", "total_interaction_value",
       "avg_interaction_value", "interaction_count" >>

\* a vector of the features that are present only, with no default for the others
FeatureValuesPresentOnly(feature_names, features) ==
    LET present == SelectSeq(feature_names, LAMBDA name : name \in DOMAIN features)
    IN  [i \in 1..Len(present) |-> features[present[i]]]

\* features.get(feat_name, 0) for each name of the trained list, in its order
FeatureValues(feature_names, features) ==
    [i \in 1..Len(feature_names) |->
        IF feature_names[i] \in DOMAIN features THEN features[feature_names[i]] ELSE 0]

\* the ensemble-spread proxy: the same prediction repeated min(10, n_estimators)
\* times, so its standard deviation is 0 when there are at least two of them
StdDev(gp) ==
    IF gp.has_booster
    THEN IF Min(MaxTrees, gp.n_estimators) > 1 THEN 0 ELSE FallbackStd
    ELSE FallbackStd

\* GradePredictor.predict; raw is what the wrapped model returns for the vector
predict(gp, features, raw) ==
    [ feature_values |-> FeatureValues(gp.feature_names, features),
      pred |-> Clip(raw, MinGrade, MaxGrade),
      confidence_interval |-> (CIMultiplier * StdDev(gp)) \div 1000 ]

\* GradePredictor.predict_batch: predict for each dictionary of the list, in order;
\* raws[i] is what the wrapped model returns for the i-th vector
predict_batch(gp, features_list, raws) ==
    [ i \in 1..Len(features_list) |->
        LET r == predict(gp, features_list[i], raws[i])
        IN  <<r.pred, r.confidence_interval>> ]

\* ------------------------------------------------------------------ /predict-grade

\* Python's round(x, 2) on thousandths: to the nearest hundredth, ties to even
Round2(x) ==
    LET q == x \div 10
        r == x % 10
    IN  IF r < 5 THEN 10 * q
        ELSE IF r > 5 THEN 10 * (q + 1)
        ELSE IF q % 2 = 0 THEN 10 * q ELSE 10 * (q + 1)

\* the table with the A breakpoint exclusive
grade_to_letter_strict(grade) ==
    IF grade > 3700 THEN "A"
    ELSE IF grade >= 3300 THEN "A-"
    ELSE IF grade >= 3000 THEN "B+"
    ELSE IF grade >= 2700 THEN "B"
    ELSE IF grade >= 2300 THEN "B-"
    ELSE IF grade >= 2000 THEN "C+"
    ELSE IF grade >= 1700 THEN "C"
    ELSE IF grade >= 1300 THEN "C-"
    ELSE IF grade >= 1000 THEN "D"
    ELSE "F"

\* the table with the A- row left out
grade_to_letter_no_a_minus(grade) ==
    IF grade >= 3700 THEN "A"
    ELSE IF grade >= 3000 THEN "B+"
    ELSE IF grade >= 2700 THEN "B"
    ELSE IF grade >= 2300 THEN "B-"
    ELSE IF grade >= 2000 THEN "C+"
    ELSE IF grade >= 1700 THEN "C"
    ELSE IF grade >= 1300 THEN "C-"
    ELSE IF grade >= 1000 THEN "D"
    ELSE "F"

grade_to_letter(grade) ==
    IF grade >= 3700 THEN "A"
    ELSE IF grade >= 3300 THEN "A-"
    ELSE IF grade >= 3000 THEN "B+"
    ELSE IF grade >= 2700 THEN "B"
    ELSE IF grade >= 2300 THEN "B-"
    ELSE IF grade >= 2000 THEN "C+"
    ELSE IF grade >= 1700 THEN "C"
    ELSE IF grade >= 1300 THEN "C-"
    ELSE IF grade >= 1000 THEN "D"
    ELSE "F"

\* the values of the non-null entries of a column of records
RECURSIVE NonNull(_, _)
NonNull(recs, field) ==
    IF recs = <<>> THEN <<>>
    ELSE IF IsNone(recs[1][field]) THEN NonNull(Tail(recs), field)
         ELSE <<Val(recs[1][field])>> \o NonNull(Tail(recs), field)

\* a mean that falls back to the placeholder 85 of the recommendation features
MeanOrPlaceholder(xs) == IF xs = <<>> THEN 85 ELSE SumSeq(xs) \div Len(xs)

\* sum(xs) / len(xs) if xs else 0.0
MeanOrZero(xs) == IF xs = <<>> THEN 0 ELSE SumSeq(xs) \div Len(xs)

RECURSIVE SumSqDev(_, _)
SumSqDev(xs, m) ==
    IF xs = <<>> THEN 0 ELSE (xs[1] - m) * (xs[1] - m) + SumSqDev(Tail(xs), m)

\* pd.Series(xs).std() (sample standard deviation) if len(xs) > 1 else 0.0
StdOrZero(xs) ==
    IF Len(xs) > 1
    THEN ISqrt(SumSqDev(xs, SumSeq(xs) \div Len(xs)) \div (Len(xs) - 1))
    ELSE 0

difficulty_map(d) ==
    IF d = "Beginner" THEN 1
    ELSE IF d = "Intermediate" THEN 2
    ELSE IF d = "Advanced" THEN 3
    ELSE 2

\* the features dictionary the handler builds from the store's records
BuildFeatures(profile, enrollments, course, interactions) ==
    LET completed_grades == NonNull(enrollments, "grade")
        attendance_rates == NonNull(enrollments, "attendance_rate")
        completion_rates == NonNull(enrollments, "assignment_completion_rate")
    IN  [ hist_mean_grade |-> MeanOrZero(completed_grades),
          hist_std_grade |-> StdOrZero(completed_grades),
          hist_course_count |-> Len(enrollments),
          hist_avg_attendance |-> MeanOrZero(attendance_rates),
          hist_avg_completion |-> MeanOrZero(completion_rates),
          credits |-> course.credits,
          topic_count |-> IF IsNone(course.topics) THEN 0 ELSE Val(course.topics),
          difficulty_num |-> difficulty_map(course.difficulty),
          high_school_gpa |-> profile.high_school_gpa,
          year |-> profile.year,
          age |-> IF IsNone(profile.age) \/ Val(profile.age) = 0
                  THEN 20 ELSE Val(profile.age),
          attendance_rate |-> 85,
          assignment_completion_rate |-> 90,
          total_interaction_value |-> SumSeq(interactions),
          avg_interaction_value |-> MeanOrZero(interactions),
          interaction_count |-> Len(interactions) ]

\* a response whose upper bound is not clamped to 4.0
PredictGradeResponseUnclamped(predicted_grade, confidence_interval) ==
    LET lower_bound == Max(MinGrade, predicted_grade - confidence_interval)
        upper_bound == predicted_grade + confidence_interval
    IN  [ op |-> "predict_grade",
          status |-> 200,
          predicted_grade |-> Round2(predicted_grade),
          confidence_interval |-> Round2(confidence_interval),
          lower |-> Round2(lower_bound),
          upper |-> Round2(upper_bound),
          letter_grade |-> grade_to_letter(predicted_grade),
          point_estimate |-> predicted_grade,
          interval |-> confidence_interval ]

\* a response whose letter is taken from the rounded grade
PredictGradeResponseRoundedLetter(predicted_grade, confidence_interval) ==
    LET lower_bound == Max(MinGrade, predicted_grade - confidence_interval)
        upper_bound == Min(MaxGrade, predicted_grade + confidence_interval)
    IN  [ op |-> "predict_grade",
          status |-> 200,
          predicted_grade |-> Round2(predicted_grade),
          confidence_interval |-> Round2(confidence_interval),
          lower |-> Round2(lower_bound),
          upper |-> Round2(upper_bound),
          letter_grade |-> grade_to_letter(Round2(predicted_grade)),
          point_estimate |-> predicted_grade,
          interval |-> confidence_interval ]

\* PredictGradeResponse as the handler fills it in
PredictGradeResponse(predicted_grade, confidence_interval) ==
    LET lower_bound == Max(MinGrade, predicted_grade - confidence_interval)
        upper_bound == Min(MaxGrade, predicted_grade + confidence_interval)
    IN  [ op |-> "predict_grade",
          status |-> 200,
          predicted_grade |-> Round2(predicted_grade),
          confidence_interval |-> Round2(confidence_interval),
          lower |-> Round2(lower_bound),
          upper |-> Round2(upper_bound),
          letter_grade |-> grade_to_letter(predicted_grade),
          \* not part of the response: what predict returned to the handler
          point_estimate |-> predicted_grade,
          interval |-> confidence_interval ]

HttpError(op, status) == [op |-> op, status |-> status]

\* an availability check raised inside the try block, which turns it into a 500
UnavailableInsideTry(op) == HttpError(op, 500)

\* raise HTTPException(status_code=503) ahead of the try block
Unavailable(op) == HttpError(op, 503)

\* a response together with what the request did on its way: the methods of
\* the artifacts it called and the tables of the record store it read
Traced(response, calls, reads) == response @@ [calls |-> calls, reads |-> reads]

\* ------------------------------------------------------------------ /recommendations

\* Python's round(x, 3) on millionths: to the nearest thousandth, ties to even
Round3(x) ==
    LET q == x \div 1000
        r == x % 1000
    IN  IF r < 500 THEN 1000 * q
        ELSE IF r > 500 THEN 1000 * (q + 1)
        ELSE IF q % 2 = 0 THEN 1000 * q ELSE 1000 * (q + 1)

\* the features dictionary the handler builds for one recommended course
RecommendationFeatures(profile, completed_enrollments, course) ==
    [ hist_mean_grade |-> MeanOrZero(NonNull(completed_enrollments, "grade")),
      hist_std_grade |-> 0,
      hist_course_count |-> Len(completed_enrollments),
      hist_avg_attendance |-> 85,
      hist_avg_completion |-> 90,
      credits |-> course.credits,
      topic_count |-> IF IsNone(course.topics) THEN 0 ELSE Val(course.topics),
      difficulty_num |-> difficulty_map(course.difficulty),
      high_school_gpa |-> profile.high_school_gpa,
      year |-> profile.year,
      age |-> IF IsNone(profile.age) \/ Val(profile.age) = 0
              THEN 20 ELSE Val(profile.age),
      attendance_rate |-> 85,
      assignment_completion_rate |-> 90,
      total_interaction_value |-> 0,
      avg_interaction_value |-> 0,
      interaction_count |-> 0 ]

\* one element of the response's list
CourseRecommendation(course_id, score, predicted_grade) ==
    [ course_id |-> course_id, score |-> Round3(score),
      predicted_grade |-> predicted_grade ]

\* ------------------------------------------------------------------ CourseRecommender

DefaultScore == 500
DefaultK == 10

\* the first n elements of a sequence (all of it when it is shorter)
Take(s, n) == SubSeq(s, 1, Min(Max(n, 0), Len(s)))

\* Python's s[:n]: a negative n counts from the end
SliceTo(s, n) == IF n >= 0 THEN Take(s, n) ELSE Take(s, Len(s) + n)

RangeOf(s) == { s[i] : i \in 1..Len(s) }

RECURSIVE Dot(_, _)
Dot(a, b) == IF a = <<>> THEN 0 ELSE a[1] * b[1] + Dot(Tail(a), Tail(b))

\* sklearn cosine_similarity of two rows, in thousandths; a zero row has
\* similarity 0 to every row
CosSim(a, b) ==
    LET na == Dot(a, a)
        nb == Dot(b, b)
    IN  IF na = 0 \/ nb = 0 THEN 0 ELSE (Dot(a, b) * 1000) \div ISqrt(na * nb)

\* x put into a sequence sorted by descending key, after the elements whose key
\* is not smaller (the sort is stable)
RECURSIVE InsertDesc(_, _, _)
InsertDesc(x, s, key) ==
    IF s = <<>> THEN <<x>>
    ELSE IF key[s[1]] >= key[x] THEN <<s[1]>> \o InsertDesc(x, Tail(s), key)
         ELSE <<x>> \o s

\* x put into a sequence sorted by ascending key
RECURSIVE InsertAsc(_, _, _)
InsertAsc(x, s, key) ==
    IF s = <<>> THEN <<x>>
    ELSE IF key[s[1]] <= key[x] THEN <<s[1]>> \o InsertAsc(x, Tail(s), key)
         ELSE <<x>> \o s

RECURSIVE SortAscFrom(_, _, _)
SortAscFrom(s, acc, key) ==
    IF s = <<>> THEN acc ELSE SortAscFrom(Tail(s), InsertAsc(s[1], acc, key), key)

SortAsc(s, key) == SortAscFrom(s, <<>>, key)

\* a sort that leaves the sequence as it is
SortNothing(s, key) == s

RECURSIVE SortDescFrom(_, _, _)
SortDescFrom(s, acc, key) ==
    IF s = <<>> THEN acc ELSE SortDescFrom(Tail(s), InsertDesc(s[1], acc, key), key)

\* sorted(items, key=..., reverse=True): stable, descending by key
SortDesc(s, key) == SortDescFrom(s, <<>>, key)

\* the n labels of smallest value instead
nsmallest(labels, values, n) ==
    IF n <= 0 THEN <<>> ELSE Take(SortAsc(labels, values), n)

\* Series.nlargest(n): the n labels of largest value, descending, the first
\* occurrence first among equal values; nothing when n <= 0
nlargest(labels, values, n) ==
    IF n <= 0 THEN <<>> ELSE Take(SortDesc(labels, values), n)

\* RecommenderTrainer.compute_user_similarity: cosine similarity of the rows
compute_user_similarity(m) ==
    [ s \in RangeOf(m.index) |->
        [ t \in RangeOf(m.index) |-> CosSim(m.cells[s], m.cells[t]) ] ]

\* user_item_matrix.loc[student, course]
Cell(m, student, course) ==
    LET j == CHOOSE j \in 1..Len(m.columns) : m.columns[j] = course
    IN  m.cells[student][j]

\* the selected neighbours who rated the course
RECURSIVE Raters(_, _, _)
Raters(m, users, course) ==
    IF users = <<>> THEN <<>>
    ELSE IF Cell(m, users[1], course) > 0
         THEN <<users[1]>> \o Raters(m, Tail(users), course)
         ELSE Raters(m, Tail(users), course)

RECURSIVE WeightedSum(_, _, _, _)
WeightedSum(rec, student_id, users, course) ==
    IF users = <<>> THEN 0
    ELSE Cell(rec.user_item_matrix, users[1], course) * 100
            * rec.user_similarity[student_id][users[1]]
         + WeightedSum(rec, student_id, Tail(users), course)

RECURSIVE SimilaritySum(_, _, _)
SimilaritySum(rec, student_id, users) ==
    IF users = <<>> THEN 0
    ELSE rec.user_similarity[student_id][users[1]]
         + SimilaritySum(rec, student_id, Tail(users))

\* the neighbours: the k + 1 most similar rows without the first of them
similar_users(rec, student_id, k) ==
    Tail(nlargest(rec.user_item_matrix.index, rec.user_similarity[student_id], k + 1))

\* a scorer that divides by the similarity of every selected neighbour, raters or not
CollaborativeScoreOverAllNeighbours(rec, student_id, users, course) ==
    LET raters == Raters(rec.user_item_matrix, users, course)
        similarity_sum == SimilaritySum(rec, student_id, users)
    IN  IF raters # <<>>
        THEN IF similarity_sum > 0
             THEN WeightedSum(rec, student_id, raters, course) \div similarity_sum
             ELSE 0
        ELSE 0

\* the score of one unrated course, in thousandths of a grade point
CollaborativeScore(rec, student_id, users, course) ==
    LET raters == Raters(rec.user_item_matrix, users, course)
        similarity_sum == SimilaritySum(rec, student_id, raters)
    IN  IF raters # <<>>
        THEN IF similarity_sum > 0
             THEN WeightedSum(rec, student_id, raters, course) \div similarity_sum
             ELSE 0
        ELSE 0

\* a scorer that also scores the courses the student has rated
get_collaborative_scores_all_courses(rec, student_id, k) ==
    IF student_id \notin RangeOf(rec.user_item_matrix.index) THEN << >>
    ELSE LET users == similar_users(rec, student_id, k)
         IN  [ c \in RangeOf(rec.user_item_matrix.columns) |->
                 CollaborativeScore(rec, student_id, users, c) ]

\* a scorer that returns nothing for a student who rated nothing
get_collaborative_scores_empty_for_unrated(rec, student_id, k) ==
    IF student_id \notin RangeOf(rec.user_item_matrix.index) THEN << >>
    ELSE IF \A c \in RangeOf(rec.user_item_matrix.columns) :
                Cell(rec.user_item_matrix, student_id, c) = 0
    THEN << >>
    ELSE LET users == similar_users(rec, student_id, k)
             unrated == { c \in RangeOf(rec.user_item_matrix.columns) :
                            ~(Cell(rec.user_item_matrix, student_id, c) > 0) }
         IN  [ c \in unrated |-> CollaborativeScore(rec, student_id, users, c) ]

\* CourseRecommender.get_collaborative_scores: a mapping course id -> score
get_collaborative_scores(rec, student_id, k) ==
    IF student_id \notin RangeOf(rec.user_item_matrix.index) THEN << >>
    ELSE LET users == similar_users(rec, student_id, k)
             unrated == { c \in RangeOf(rec.user_item_matrix.columns) :
                            ~(Cell(rec.user_item_matrix, student_id, c) > 0) }
         IN  [ c \in unrated |-> CollaborativeScore(rec, student_id, users, c) ]

RECURSIVE SumRows(_, _, _)
SumRows(features, indices, width) ==
    IF indices = {} THEN [j \in 1..width |-> 0]
    ELSE LET i == CHOOSE i \in indices : TRUE
             rest == SumRows(features, indices \ {i}, width)
         IN  [j \in 1..width |-> features[i][j] + rest[j]]

\* a content scorer that returns nothing on a cold start
get_content_based_scores_cold_empty(rec, student_id, enrolled_courses) ==
    LET course_ids == rec.course_features.course_ids
        features == rec.course_features.features
        enrolled_indices == { i \in 1..Len(course_ids) : course_ids[i] \in enrolled_courses }
    IN  IF enrolled_courses = {} \/ enrolled_indices = {}
        THEN << >>
        ELSE LET profile == SumRows(features, enrolled_indices, Len(features[1]))
                 kept == { i \in 1..Len(course_ids) : course_ids[i] \notin enrolled_courses }
             IN  [ c \in { course_ids[i] : i \in kept } |->
                     CosSim(profile,
                            features[CHOOSE i \in kept :
                                        /\ course_ids[i] = c
                                        /\ \A j \in kept : course_ids[j] = c => j <= i]) ]

\* a scorer that also scores the enrolled courses
get_content_based_scores_with_enrolled(rec, student_id, enrolled_courses) ==
    LET course_ids == rec.course_features.course_ids
        features == rec.course_features.features
        enrolled_indices == { i \in 1..Len(course_ids) : course_ids[i] \in enrolled_courses }
    IN  IF enrolled_courses = {}
        THEN [ c \in RangeOf(course_ids) |-> DefaultScore ]
        ELSE IF enrolled_indices = {}
        THEN [ c \in RangeOf(course_ids) |-> DefaultScore ]
        ELSE LET profile == SumRows(features, enrolled_indices, Len(features[1]))
             IN  [ c \in RangeOf(course_ids) |->
                     CosSim(profile,
                            features[CHOOSE i \in 1..Len(course_ids) :
                                        course_ids[i] = c]) ]

\* a content scorer whose cold-start default is 0
get_content_based_scores_cold_zero(rec, student_id, enrolled_courses) ==
    LET course_ids == rec.course_features.course_ids
        features == rec.course_features.features
        enrolled_indices == { i \in 1..Len(course_ids) : course_ids[i] \in enrolled_courses }
    IN  IF enrolled_courses = {} \/ enrolled_indices = {}
        THEN [ c \in RangeOf(course_ids) |-> 0 ]
        ELSE LET profile == SumRows(features, enrolled_indices, Len(features[1]))
                 kept == { i \in 1..Len(course_ids) : course_ids[i] \notin enrolled_courses }
             IN  [ c \in { course_ids[i] : i \in kept } |->
                     CosSim(profile,
                            features[CHOOSE i \in kept :
                                        /\ course_ids[i] = c
                                        /\ \A j \in kept : course_ids[j] = c => j <= i]) ]

\* CourseRecommender.get_content_based_scores: a mapping course id -> score.
\* The profile is the sum of the enrolled rows: the cosine of the mean is the
\* cosine of the sum.
get_content_based_scores(rec, student_id, enrolled_courses) ==
    LET course_ids == rec.course_features.course_ids
        features == rec.course_features.features
        enrolled_indices == { i \in 1..Len(course_ids) : course_ids[i] \in enrolled_courses }
    IN  IF enrolled_courses = {}
        THEN [ c \in RangeOf(course_ids) |-> DefaultScore ]
        ELSE IF enrolled_indices = {}
        THEN [ c \in RangeOf(course_ids) |-> DefaultScore ]
        ELSE LET profile == SumRows(features, enrolled_indices, Len(features[1]))
                 kept == { i \in 1..Len(course_ids) : course_ids[i] \notin enrolled_courses }
             IN  [ c \in { course_ids[i] : i \in kept } |->
                     CosSim(profile,
                            features[CHOOSE i \in kept :
                                        /\ course_ids[i] = c
                                        /\ \A j \in kept : course_ids[j] = c => j <= i]) ]

\* dict.get(key, 0)
Get(d, key) == IF key \in DOMAIN d THEN d[key] ELSE 0

\* hybrid scores for the courses that both mappings have
hybrid_scores_common_keys(cf_scores, cb_scores, cf_weight, cb_weight) ==
    [ c \in (DOMAIN cf_scores) \cap (DOMAIN cb_scores) |->
        LET cf_score == Get(cf_scores, c)
            cb_score == Get(cb_scores, c)
            cf_score_norm4 == IF cf_score > 0 THEN cf_score ELSE 0
        IN  (cf_weight * cf_score_norm4) \div 4 + cb_weight * cb_score ]

\* the hybrid score of every candidate, in millionths; the weights are thousandths
hybrid_scores(cf_scores, cb_scores, cf_weight, cb_weight) ==
    [ c \in (DOMAIN cf_scores) \cup (DOMAIN cb_scores) |->
        LET cf_score == Get(cf_scores, c)
            cb_score == Get(cb_scores, c)
            cf_score_norm4 == IF cf_score > 0 THEN cf_score ELSE 0
        IN  (cf_weight * cf_score_norm4) \div 4 + cb_weight * cb_score ]

\* the orders in which a set can be iterated
Orders(S) ==
    { f \in [1..Cardinality(S) -> S] : \A i, j \in 1..Cardinality(S) : f[i] = f[j] => i = j }

Pairs(ids, scores) == [ i \in 1..Len(ids) |-> <<ids[i], scores[ids[i]]>> ]

\* CourseRecommender.recommend up to the dictionary of hybrid scores: one entry
\* per course of either mapping
candidate_scores(rec, student_id, enrolled_courses, cf_weight, cb_weight) ==
    hybrid_scores(get_collaborative_scores(rec, student_id, DefaultK),
                  get_content_based_scores(rec, student_id, enrolled_courses),
                  cf_weight, cb_weight)

\* CourseRecommender.recommend from the dictionary of hybrid scores on: the
\* entries, in the order the candidate set was iterated in, sorted by descending
\* score and cut to the first n
recommend(scores, n, order) ==
    Pairs(SliceTo(SortDesc(order, scores), n), scores)

\* (user_item_matrix > 0).sum(axis=0)
course_popularity(m) ==
    [ c \in RangeOf(m.columns) |->
        Cardinality({ s \in RangeOf(m.index) : Cell(m, s, c) > 0 }) ]

\* CourseRecommender.get_popular_courses
get_popular_courses(rec, n) ==
    nlargest(rec.user_item_matrix.columns, course_popularity(rec.user_item_matrix), n)

\* ------------------------------------------------------------------ inputs

Users == {"u1", "u2"}

NotLoaded == [loaded |-> FALSE]

\* the feature-name list of an artifact trained by an older trainer: another
\* order, and a name the handler does not build
OlderFeatureNames == << "year", "prior_gpa", "credits" >>

\* the grade artifact: XGBRegressor (has get_booster) or another regressor
GradeArtifacts ==
    ( { [loaded |-> TRUE, has_booster |-> b, n_estimators |-> n,
         feature_names |-> FeatureNames] :
          b \in BOOLEAN, n \in {1, 200} }
      \ { [loaded |-> TRUE, has_booster |-> FALSE, n_estimators |-> 1,
           feature_names |-> FeatureNames] } )
    \cup { [loaded |-> TRUE, has_booster |-> TRUE, n_estimators |-> 200,
            feature_names |-> OlderFeatureNames] }

RawValues == (0 - RawMargin) .. (MaxGrade + RawMargin)

Breakpoints == {MinGrade, 1000, 1300, 1700, 2000, 2300, 2700, 3000, 3300, 3700, MaxGrade}

RawSamples == { b + d : b \in Breakpoints, d \in (0 - NearBreak) .. NearBreak }

\* what the model returns in a batch: below, at the ends of and above the range
BatchRaws == { 0 - RawMargin, MinGrade, MaxGrade, MaxGrade + RawMargin }

\* sequences over S of length at most n
SeqsUpTo(S, n) == UNION { [1..k -> S] : k \in 0..n }

Profiles ==
    { [high_school_gpa |-> 3600, year |-> 2, age |-> a] : a \in {None, Some(20)} }

CourseRecords ==
    { [credits |-> 3, topics |-> Some(4), difficulty |-> "Intermediate"],
      [credits |-> 4, topics |-> None, difficulty |-> "Seminar"] }

\* rows of the enrollments table with status completed
EnrollmentRecords ==
    { [grade |-> Some(3000), attendance_rate |-> Some(80),
       assignment_completion_rate |-> Some(95)],
      [grade |-> Some(3500), attendance_rate |-> Some(90),
       assignment_completion_rate |-> None],
      [grade |-> None, attendance_rate |-> None,
       assignment_completion_rate |-> Some(70)] }

InteractionValues == {1, 3}

\* feature dictionaries handed to predict directly
FeatureDicts ==
    { << >>,
      [credits |-> 3, year |-> 2, shoe_size |-> 42],
      BuildFeatures([high_school_gpa |-> 3600, year |-> 2, age |-> Some(20)],
                    << >>,
                    [credits |-> 3, topics |-> Some(4), difficulty |-> "Intermediate"],
                    << >>) }

\* students with a row in the user-item matrix, in index order, and one without
MatrixStudents == <<"s1", "s2", "s3">>
Students == RangeOf(MatrixStudents) \cup {"s4"}

\* courses with a column in the user-item matrix, in column order
MatrixCourses == <<"c1", "c2">>

\* the catalogue of the course-feature matrix; nobody completed c3
CatalogueCourses == <<"c1", "c2", "c3">>

\* rows of the user-item matrix, in tenths of a grade point; a cell of 0 is
\* "no rating" and also a completed grade of 0.0, so a row can be all zeros
MatrixRows == { <<0, 0>>, <<35, 0>>, <<35, 20>>, <<20, 35>>, <<0, 35>> }

UserItemMatrices ==
    { [index |-> MatrixStudents, columns |-> MatrixCourses, cells |-> cells] :
        cells \in [RangeOf(MatrixStudents) -> MatrixRows] }

\* TF-IDF rows of norm 1 (in hundredths), and the zero row of a course without topics
CourseFeatureMatrices ==
    { [course_ids |-> CatalogueCourses,
       features |-> << <<100, 0>>, <<60, 80>>, <<0, 100>> >>],
      [course_ids |-> CatalogueCourses,
       features |-> << <<100, 0>>, <<100, 0>>, <<0, 0>> >>] }

RecommenderArtifacts ==
    { [loaded |-> TRUE, user_item_matrix |-> m,
       user_similarity |-> compute_user_similarity(m), course_features |-> f] :
        m \in UserItemMatrices, f \in CourseFeatureMatrices }

\* enrolled lists; c9 is a course the store knows and the course-feature matrix
\* does not
EnrolledLists == (SUBSET RangeOf(CatalogueCourses)) \cup {{"c9"}, {"c1", "c9"}}

Ks == {1, 2, DefaultK}

DefaultCfWeight == 600
DefaultCbWeight == 400

\* pairs of cf_weight and cb_weight: the defaults, and a pair of sum 2
Weights == { <<DefaultCfWeight, DefaultCbWeight>>, <<1000, 1000>> }

\* the ids of the rows of the store's courses table: with and without c2
CourseTables == { {"c1", "c2", "c3", "c9"}, {"c1", "c3", "c9"} }

\* what the model returns inside /recommendations: below, inside and above the range
ServiceRaws == { 0 - RawMargin, 3655, MaxGrade + RawMargin }

\* the artifacts of the process that serves both endpoints
ServiceGradeArtifacts ==
    { g \in GradeArtifacts :
        g.has_booster /\ g.n_estimators = 200 /\ g.feature_names = FeatureNames }

ServiceRows ==
    { [s \in RangeOf(MatrixStudents) |->
          IF s = "s1" THEN <<35, 0>> ELSE IF s = "s2" THEN <<35, 20>> ELSE <<0, 0>>],
      [s \in RangeOf(MatrixStudents) |->
          IF s = "s3" THEN <<20, 35>> ELSE <<35, 20>>] }

ServiceRecommenders ==
    { r \in RecommenderArtifacts : r.user_item_matrix.cells \in ServiceRows }

NoCall == [op |-> "none"]
NoLocals == [op |-> "none"]

\* ------------------------------------------------------------------ actions

\* a predict that trims the artifact's feature list to the names of the call
PredictTrimmingFeatureNames ==
    /\ pc = "idle"
    /\ grade_predictor.loaded
    /\ \E features \in FeatureDicts, raw \in RawValues :
         LET r == predict(grade_predictor, features, raw)
         IN  /\ ret' = [ op |-> "predict", features |-> features, raw |-> raw,
                         feature_values |-> r.feature_values, pred |-> r.pred,
                         confidence_interval |-> r.confidence_interval ]
             /\ grade_predictor' =
                   [ grade_predictor EXCEPT !.feature_names =
                       SelectSeq(@, LAMBDA name : name \in DOMAIN features) ]
    /\ pc' = "done"
    /\ UNCHANGED <<recommender, locals>>

\* a direct call of GradePredictor.predict(features)
Predict ==
    /\ pc = "idle"
    /\ grade_predictor.loaded
    /\ \E features \in FeatureDicts, raw \in RawValues :
         LET r == predict(grade_predictor, features, raw)
         IN  ret' = [ op |-> "predict", features |-> features, raw |-> raw,
                      feature_values |-> r.feature_values, pred |-> r.pred,
                      confidence_interval |-> r.confidence_interval ]
    /\ pc' = "done"
    /\ UNCHANGED <<grade_predictor, recommender, locals>>

\* a direct call of GradePredictor.predict_batch(features_list)
PredictBatch ==
    /\ pc = "idle"
    /\ grade_predictor.loaded
    /\ \E features_list \in SeqsUpTo(FeatureDicts, MaxBatch) :
         \E raws \in [1..Len(features_list) -> BatchRaws] :
           ret' = [ op |-> "predict_batch", features_list |-> features_list,
                    raws |-> raws,
                    result |-> predict_batch(grade_predictor, features_list, raws) ]
    /\ pc' = "done"
    /\ UNCHANGED <<grade_predictor, recommender, locals>>

\* the letter table applied to a grade of the clamped range
GradeToLetter ==
    /\ pc = "idle"
    /\ \E grade \in MinGrade..MaxGrade :
         ret' = [op |-> "grade_to_letter", grade |-> grade,
                 letter |-> grade_to_letter(grade)]
    /\ pc' = "done"
    /\ UNCHANGED <<grade_predictor, recommender, locals>>

\* POST /predict-grade up to the call of predict: the availability check, the
\* ownership check, the four reads of the record store and the features dictionary
PredictGradeRead ==
    /\ pc = "idle"
    /\ \E student_id \in Users, user_id \in Users, store_ok \in BOOLEAN,
          profile \in Profiles, course \in CourseRecords,
          enrollments \in SeqsUpTo(EnrollmentRecords, MaxRecords),
          interactions \in SeqsUpTo(InteractionValues, MaxRecords) :
         IF ~grade_predictor.loaded
         THEN /\ ret' = Traced(Unavailable("predict_grade"), {}, {})
              /\ pc' = "done"
              /\ locals' = NoLocals
         ELSE IF student_id # user_id
         THEN \* the HTTPException(403) is raised inside the try block and caught
              \* by its except Exception clause
              /\ ret' = Traced(HttpError("predict_grade", 500), {}, {})
                          \* not part of the response: the ids of the request
                          @@ [ requested |-> [ student_id |-> student_id,
                                               user_id |-> user_id ] ]
              /\ pc' = "done"
              /\ locals' = NoLocals
         ELSE IF ~store_ok
         THEN \* the first read raises
              /\ ret' = Traced(HttpError("predict_grade", 500), {}, {"profiles"})
              /\ pc' = "done"
              /\ locals' = NoLocals
         ELSE /\ locals' = [ op |-> "predict_grade",
                             enrollments |-> enrollments,
                             interactions |-> interactions,
                             features |-> BuildFeatures(profile, enrollments,
                                                        course, interactions) ]
              /\ pc' = "built"
              /\ ret' = NoCall
    /\ UNCHANGED <<grade_predictor, recommender>>

\* POST /predict-grade from the call of predict to the response
PredictGradeReply ==
    /\ pc = "built"
    /\ locals.op = "predict_grade"
    /\ \E raw \in RawSamples :
         LET r == predict(grade_predictor, locals.features, raw)
         IN  ret' = Traced(PredictGradeResponse(r.pred, r.confidence_interval),
                           {"predict"},
                           {"profiles", "enrollments", "courses", "interactions"})
                    \* not part of the response: what the handler read and built
                    @@ [ enrollments |-> locals.enrollments,
                         interactions |-> locals.interactions,
                         features |-> locals.features,
                         feature_values |-> r.feature_values ]
    /\ pc' = "done"
    /\ locals' = NoLocals
    /\ UNCHANGED <<grade_predictor, recommender>>

\* a direct call of get_collaborative_scores(student_id, k)
GetCollaborativeScores ==
    /\ pc = "idle"
    /\ recommender.loaded
    /\ \E student_id \in Students, k \in Ks :
         ret' = [ op |-> "get_collaborative_scores", student_id |-> student_id,
                  k |-> k,
                  \* not part of the result: the neighbours the call selected
                  similar_users |->
                      IF student_id \in RangeOf(recommender.user_item_matrix.index)
                      THEN similar_users(recommender, student_id, k)
                      ELSE << >>,
                  scores |-> get_collaborative_scores(recommender, student_id, k) ]
    /\ pc' = "done"
    /\ UNCHANGED <<grade_predictor, recommender, locals>>

\* a direct call of get_content_based_scores(student_id, enrolled_courses)
GetContentBasedScores ==
    /\ pc = "idle"
    /\ recommender.loaded
    /\ \E student_id \in Students, enrolled_courses \in EnrolledLists :
         ret' = [ op |-> "get_content_based_scores", student_id |-> student_id,
                  enrolled_courses |-> enrolled_courses,
                  scores |-> get_content_based_scores(recommender, student_id,
                                                      enrolled_courses) ]
    /\ pc' = "done"
    /\ UNCHANGED <<grade_predictor, recommender, locals>>

\* a direct call of recommend(student_id, enrolled_courses, n, cf_weight, cb_weight)
Recommend ==
    /\ pc = "idle"
    /\ recommender.loaded
    /\ \E student_id \in Students, enrolled_courses \in EnrolledLists, w \in Weights :
         LET cf_scores == get_collaborative_scores(recommender, student_id, DefaultK)
             cb_scores == get_content_based_scores(recommender, student_id,
                                                   enrolled_courses)
             scores == hybrid_scores(cf_scores, cb_scores, w[1], w[2])
         IN  \E n \in (0 - MaxN) .. MaxN, order \in Orders(DOMAIN scores) :
               ret' = [ op |-> "recommend", student_id |-> student_id,
                        enrolled_courses |-> enrolled_courses, n |-> n,
                        cf_weight |-> w[1], cb_weight |-> w[2],
                        \* not part of the result: the two mappings and the score
                        \* of every candidate
                        cf_scores |-> cf_scores,
                        cb_scores |-> cb_scores,
                        hybrid_scores |-> scores,
                        result |-> recommend(scores, n, order) ]
    /\ pc' = "done"
    /\ UNCHANGED <<grade_predictor, recommender, locals>>

\* a direct call of get_popular_courses(n)
GetPopularCourses ==
    /\ pc = "idle"
    /\ recommender.loaded
    /\ \E n \in (0 - MaxN) .. MaxN :
         ret' = [ op |-> "get_popular_courses", n |-> n,
                  result |-> get_popular_courses(recommender, n) ]
    /\ pc' = "done"
    /\ UNCHANGED <<grade_predictor, recommender, locals>>

\* the score the handler gives to a course of the popularity fallback, in millionths
PopularScore == 500000

\* [(cid, 0.5) for cid in popular_courses if cid not in enrolled_course_ids]
PopularFallback(rec, n, enrolled_course_ids) ==
    LET popular_courses == get_popular_courses(rec, n)
        kept == SelectSeq(popular_courses, LAMBDA cid : cid \notin enrolled_course_ids)
    IN  [ i \in 1..Len(kept) |-> <<kept[i], PopularScore>> ]

\* POST /recommendations up to the loop over the recommended courses: the
\* availability check, the ownership check, the read of the enrollments, the
\* call of recommend, the popularity fallback and the read of the courses
GetRecommendationsRead ==
    /\ pc = "idle"
    /\ \E student_id \in Students, user_id \in Students,
          failing \in {"none", "enrollments", "courses"},
          enrolled_course_ids \in EnrolledLists, n \in (0 - MaxN) .. MaxN,
          courses_table \in CourseTables :
         IF ~recommender.loaded
         THEN /\ ret' = Traced(Unavailable("recommendations"), {}, {})
              /\ pc' = "done"
              /\ locals' = NoLocals
         ELSE IF student_id # user_id
         THEN \* the HTTPException(403) is raised inside the try block and caught
              \* by its except Exception clause
              /\ ret' = Traced(HttpError("recommendations", 500), {}, {})
                          \* not part of the response: the ids of the request
                          @@ [ requested |-> [ student_id |-> student_id,
                                               user_id |-> user_id ] ]
              /\ pc' = "done"
              /\ locals' = NoLocals
         ELSE IF failing = "enrollments"
         THEN /\ ret' = Traced(HttpError("recommendations", 500), {}, {"enrollments"})
              /\ pc' = "done"
              /\ locals' = NoLocals
         ELSE LET scores == candidate_scores(recommender, user_id, enrolled_course_ids,
                                             DefaultCfWeight, DefaultCbWeight)
              IN  \E order \in Orders(DOMAIN scores) :
                    LET ranked == recommend(scores, n, order)
                        recommendations ==
                            IF ranked = << >>
                            THEN PopularFallback(recommender, n, enrolled_course_ids)
                            ELSE ranked
                        calls == IF ranked = << >>
                                 THEN {"recommend", "get_popular_courses"}
                                 ELSE {"recommend"}
                    IN  IF failing = "courses"
                        THEN /\ ret' = Traced(HttpError("recommendations", 500),
                                              calls, {"enrollments", "courses"})
                             /\ pc' = "done"
                             /\ locals' = NoLocals
                        ELSE /\ locals' =
                                  [ op |-> "recommendations",
                                    user_id |-> user_id,
                                    enrolled_course_ids |-> enrolled_course_ids,
                                    n |-> n,
                                    \* what recommend returned
                                    ranked |-> ranked,
                                    \* the recommendations found in courses_dict
                                    pending |->
                                        SelectSeq(recommendations,
                                                  LAMBDA r : r[1] \in courses_table),
                                    course_recommendations |-> << >>,
                                    calls |-> calls,
                                    reads |-> {"enrollments", "courses"} ]
                             /\ pc' = "courses"
                             /\ ret' = NoCall
    /\ UNCHANGED <<grade_predictor, recommender>>

\* one turn of the loop over the recommended courses: the optional grade
\* prediction, whose failures are swallowed, and the append to the list
GetRecommendationsCourse ==
    /\ pc = "courses"
    /\ locals.op = "recommendations"
    /\ locals.pending # << >>
    /\ LET course_id == Head(locals.pending)[1]
           score == Head(locals.pending)[2]
       IN  IF ~grade_predictor.loaded
           THEN locals' = [ locals EXCEPT
                      !.pending = Tail(@),
                      !.course_recommendations =
                          Append(@, CourseRecommendation(course_id, score, None)) ]
           ELSE \E inner_ok \in BOOLEAN, profile \in Profiles, course \in CourseRecords,
                   completed_enrollments \in SeqsUpTo(EnrollmentRecords, 1),
                   raw \in ServiceRaws :
                  IF ~inner_ok
                  THEN \* the read of the profile raises: except: pass
                       locals' = [ locals EXCEPT
                           !.pending = Tail(@),
                           !.course_recommendations =
                               Append(@, CourseRecommendation(course_id, score, None)),
                           !.reads = @ \cup {"profiles"} ]
                  ELSE LET features == RecommendationFeatures(profile,
                                           completed_enrollments, course)
                           pred == predict(grade_predictor, features, raw).pred
                       IN  locals' = [ locals EXCEPT
                               !.pending = Tail(@),
                               !.course_recommendations =
                                   Append(@, CourseRecommendation(course_id, score,
                                                                  Some(Round2(pred)))),
                               !.calls = @ \cup {"predict"},
                               !.reads = @ \cup {"profiles"} ]
    /\ UNCHANGED <<grade_predictor, recommender, pc, ret>>

\* POST /recommendations after the loop: the response
GetRecommendationsReply ==
    /\ pc = "courses"
    /\ locals.op = "recommendations"
    /\ locals.pending = << >>
    /\ ret' = Traced([ op |-> "recommendations", status |-> 200,
                       student_id |-> locals.user_id,
                       recommendations |-> locals.course_recommendations,
                       \* not part of the response: the request it answers
                       enrolled_course_ids |-> locals.enrolled_course_ids,
                       n |-> locals.n,
                       ranked |-> locals.ranked ],
                     locals.calls, locals.reads)
    /\ pc' = "done"
    /\ locals' = NoLocals
    /\ UNCHANGED <<grade_predictor, recommender>>

\* the caller takes the result; the next call starts from the loaded artifacts only
Return ==
    /\ pc = "done"
    /\ pc' = "idle"
    /\ ret' = NoCall
    /\ UNCHANGED <<grade_predictor, recommender, locals>>

\* ------------------------------------------------------------------ specifications

\* process start with the recommender artifact missing
InitGrade ==
    /\ grade_predictor \in GradeArtifacts \cup {NotLoaded}
    /\ recommender = NotLoaded
    /\ pc = "idle"
    /\ locals = NoLocals
    /\ ret = NoCall

NextGrade ==
    \/ Predict
    \/ PredictBatch
    \/ GradeToLetter
    \/ PredictGradeRead
    \/ PredictGradeReply
    \/ Return

SpecGrade == InitGrade /\ [][NextGrade]_vars

\* process start with the grade artifact missing
InitRec ==
    /\ grade_predictor = NotLoaded
    /\ recommender \in RecommenderArtifacts
    /\ pc = "idle"
    /\ locals = NoLocals
    /\ ret = NoCall

NextRec ==
    \/ GetCollaborativeScores
    \/ GetContentBasedScores
    \/ Recommend
    \/ GetPopularCourses
    \/ Return

SpecRec == InitRec /\ [][NextRec]_vars

\* process start of the service: each artifact loaded or missing
InitService ==
    /\ grade_predictor \in ServiceGradeArtifacts \cup {NotLoaded}
    /\ recommender \in ServiceRecommenders \cup {NotLoaded}
    /\ pc = "idle"
    /\ locals = NoLocals
    /\ ret = NoCall

NextService ==
    \/ PredictGradeRead
    \/ PredictGradeReply
    \/ GetRecommendationsRead
    \/ GetRecommendationsCourse
    \/ GetRecommendationsReply
    \/ Recommend
    \/ Return

SpecService == InitService /\ [][NextService]_vars

\* a process with both artifacts loaded, whose methods are called directly
InitCalls ==
    /\ grade_predictor \in ServiceGradeArtifacts
    /\ recommender \in ServiceRecommenders
    /\ pc = "idle"
    /\ locals = NoLocals
    /\ ret = NoCall

NextCalls ==
    \/ Predict
    \/ PredictBatch
    \/ GetCollaborativeScores
    \/ GetContentBasedScores
    \/ Recommend
    \/ GetPopularCourses
    \/ Return

SpecCalls == InitCalls /\ [][NextCalls]_vars

\* ------------------------------------------------------------------ claims: grades

\* the breakpoint table of the specification, top row first
LetterTable ==
    << <<3700, "A">>, <<3300, "A-">>, <<3000, "B+">>, <<2700, "B">>, <<2300, "B-">>,
       <<2000, "C+">>, <<1700, "C">>, <<1300, "C-">>, <<1000, "D">> >>

\* the letters of the rows a grade reaches, and the letter of the first of them
RowsReached(grade) == { i \in 1..Len(LetterTable) : grade >= LetterTable[i][1] }
TableLetter(grade) ==
    IF RowsReached(grade) = {} THEN "F"
    ELSE LetterTable[CHOOSE i \in RowsReached(grade) :
                        \A j \in RowsReached(grade) : i <= j][2]

\* C1: the point estimate predict returns lies in [0.0, 4.0], whatever the
\* features and whatever the wrapped model returned
C1_PredictInRange ==
    ret.op = "predict" => (ret.pred >= 0 /\ ret.pred <= 4000)

\* C1 witness: the model returned more than 4.0 and predict returned 4.0
C1_Witness ==
    ret.op = "predict" /\ ret.raw > 4000 /\ ret.pred = 4000

\* C2: in a successful /predict-grade response, as reported after rounding,
\* lower <= predicted_grade <= upper and both bounds lie in [0.0, 4.0]
C2_RangeBracketsGrade ==
    (ret.op = "predict_grade" /\ ret.status = 200) =>
        /\ ret.lower <= ret.predicted_grade
        /\ ret.predicted_grade <= ret.upper
        /\ 0 <= ret.lower /\ ret.lower <= 4000
        /\ 0 <= ret.upper /\ ret.upper <= 4000

\* C2 witness: a response whose interval is positive and whose upper bound was
\* cut at 4.0
C2_Witness ==
    /\ ret.op = "predict_grade" /\ ret.status = 200
    /\ ret.interval > 0
    /\ ret.point_estimate + ret.interval > 4000
    /\ ret.point_estimate < 4000
    /\ ret.upper = 4000

\* C3: every grade of [0, 4] gets exactly one letter, that of the first row of
\* the breakpoint table it reaches (each breakpoint inclusive), F when it reaches none
C3_LetterIsFirstRow ==
    ret.op = "grade_to_letter" =>
        /\ ret.letter \in {"A", "A-", "B+", "B", "B-", "C+", "C", "C-", "D", "F"}
        /\ ret.letter = TableLetter(ret.grade)

\* C3 witness: a grade just under a breakpoint got the letter of the next row
C3_Witness ==
    ret.op = "grade_to_letter" /\ ret.grade = 2699 /\ ret.letter = "B-"

\* C4 as stated: 3.65 maps to B+, 3.7 to A and 2.0 to C+
C4_Original ==
    ret.op = "grade_to_letter" =>
        /\ ret.grade = 3650 => ret.letter = "B+"
        /\ ret.grade = 3700 => ret.letter = "A"
        /\ ret.grade = 2000 => ret.letter = "C+"

\* C4 amended: 3.65 maps to A- (it reaches the 3.3 row), 3.7 to A and 2.0 to C+
C4_Examples ==
    ret.op = "grade_to_letter" =>
        /\ ret.grade = 3650 => ret.letter = "A-"
        /\ ret.grade = 3700 => ret.letter = "A"
        /\ ret.grade = 2000 => ret.letter = "C+"

\* C4 witness: the letter of 3.65 was asked for
C4_Witness ==
    ret.op = "grade_to_letter" /\ ret.grade = 3650 /\ ret.letter = "A-"

\* C5 as stated: the letter of a successful response is the table letter of the
\* predicted_grade the same response carries
C5_Original ==
    (ret.op = "predict_grade" /\ ret.status = 200) =>
        ret.letter_grade = TableLetter(ret.predicted_grade)

\* C5 amended: the letter of a successful response is the table letter of the
\* clamped point estimate before it is rounded to two decimals; it differs from
\* the letter of the reported predicted_grade only when rounding carried the
\* estimate up to or across a breakpoint
C5_LetterOfUnroundedEstimate ==
    (ret.op = "predict_grade" /\ ret.status = 200) =>
        /\ ret.point_estimate >= 0 /\ ret.point_estimate <= 4000
        /\ ret.letter_grade = TableLetter(ret.point_estimate)
        /\ ret.letter_grade # TableLetter(ret.predicted_grade) =>
              \E i \in 1..Len(LetterTable) :
                  /\ ret.point_estimate < LetterTable[i][1]
                  /\ LetterTable[i][1] <= ret.predicted_grade

\* C5 witness: an estimate of 3.697 is reported as 3.7 with the letter A-
C5_Witness ==
    /\ ret.op = "predict_grade" /\ ret.status = 200
    /\ ret.point_estimate = 3697
    /\ ret.predicted_grade = 3700
    /\ ret.letter_grade = "A-"

\* ------------------------------------------------------------------ claims: recommender

CatalogueIds == RangeOf(recommender.course_features.course_ids)
MatrixColumnIds == RangeOf(recommender.user_item_matrix.columns)
MatrixIndexIds == RangeOf(recommender.user_item_matrix.index)

\* C6: with an empty enrolled list, or one that names no course of the
\* course-feature matrix, the content mapping has every course of the matrix as
\* a key and 0.5 as every value
C6_ColdStartContentScores ==
    ( /\ ret.op = "get_content_based_scores"
      /\ ret.enrolled_courses \cap CatalogueIds = {} ) =>
        /\ DOMAIN ret.scores = CatalogueIds
        /\ \A c \in CatalogueIds : ret.scores[c] = 500

\* C6 witness: a non-empty enrolled list without any catalogued course
C6_Witness ==
    /\ ret.op = "get_content_based_scores"
    /\ ret.enrolled_courses # {}
    /\ ret.enrolled_courses \cap CatalogueIds = {}
    /\ CatalogueIds # {}
    /\ \A c \in CatalogueIds : c \in DOMAIN ret.scores /\ ret.scores[c] = 500

\* the student has a row in the user-item matrix and it is all zeros
AllZeroRow(student_id) ==
    /\ student_id \in MatrixIndexIds
    /\ \A c \in MatrixColumnIds :
          Cell(recommender.user_item_matrix, student_id, c) = 0

C8_AtMostN ==
    ret.op = "recommend" => Len(ret.result) <= Max(ret.n, 0)

\* C9: the result of recommend is sorted by non-increasing hybrid score, each
\* entry carries the hybrid score of its course, and no candidate left out has
\* a score strictly greater than a returned one
C9_SortedTopOfRanking ==
    ret.op = "recommend" =>
        LET returned == { ret.result[i][1] : i \in 1..Len(ret.result) }
        IN  /\ \A i \in 1..Len(ret.result) :
                  /\ ret.result[i][1] \in DOMAIN ret.hybrid_scores
                  /\ ret.result[i][2] = ret.hybrid_scores[ret.result[i][1]]
            /\ \A i, j \in 1..Len(ret.result) :
                  i < j => ret.result[i][2] >= ret.result[j][2]
            /\ \A c \in (DOMAIN ret.hybrid_scores) \ returned :
                  \A i \in 1..Len(ret.result) :
                      ret.hybrid_scores[c] <= ret.result[i][2]

\* C9 witness: three candidates with different scores, two returned, the one
\* left out with the smallest score
C9_Witness ==
    /\ ret.op = "recommend"
    /\ ret.n = 2
    /\ Len(ret.result) = 2
    /\ Cardinality(DOMAIN ret.hybrid_scores) = 3
    /\ ret.result[1][2] > ret.result[2][2]
    /\ \E c \in DOMAIN ret.hybrid_scores :
          /\ c # ret.result[1][1] /\ c # ret.result[2][1]
          /\ ret.hybrid_scores[c] < ret.result[2][2]

\* the number of non-zero entries of a course's column of the user-item matrix
NonZeroCount(c) ==
    Cardinality({ s \in MatrixIndexIds :
                    Cell(recommender.user_item_matrix, s, c) # 0 })

\* C10 as stated: at most n course ids, in strictly descending order of count,
\* and no omitted course with a higher count than a returned one
C10_Original ==
    ret.op = "get_popular_courses" =>
        /\ Len(ret.result) <= Max(ret.n, 0)
        /\ \A i, j \in 1..Len(ret.result) :
              i < j => NonZeroCount(ret.result[i]) > NonZeroCount(ret.result[j])
        /\ \A c \in MatrixColumnIds \ RangeOf(ret.result) :
              \A i \in 1..Len(ret.result) :
                  NonZeroCount(c) <= NonZeroCount(ret.result[i])

\* C10 amended: at most n course ids (none when n <= 0), each a different
\* column of the user-item matrix, in non-increasing order of count (courses of
\* equal count follow one another), and no omitted course with a higher count
\* than a returned one
C10_PopularNonIncreasing ==
    ret.op = "get_popular_courses" =>
        /\ Len(ret.result) <= Max(ret.n, 0)
        /\ \A i \in 1..Len(ret.result) : ret.result[i] \in MatrixColumnIds
        /\ \A i, j \in 1..Len(ret.result) :
              i < j => /\ ret.result[i] # ret.result[j]
                       /\ NonZeroCount(ret.result[i]) >= NonZeroCount(ret.result[j])
        /\ \A c \in MatrixColumnIds \ RangeOf(ret.result) :
              \A i \in 1..Len(ret.result) :
                  NonZeroCount(c) <= NonZeroCount(ret.result[i])

\* C10 witness: one course returned, the other, of smaller count, left out
C10_Witness ==
    /\ ret.op = "get_popular_courses"
    /\ ret.n = 1
    /\ Len(ret.result) = 1
    /\ \E c \in MatrixColumnIds :
          /\ c # ret.result[1]
          /\ NonZeroCount(c) < NonZeroCount(ret.result[1])

\* ------------------------------------------------------------------ claims: neighbours

\* the selected neighbours with a non-zero rating of a course
RatingNeighbours(c) ==
    { u \in RangeOf(ret.similar_users) : Cell(recommender.user_item_matrix, u, c) # 0 }

\* the similarity of a student to the target of the call
SimilarityToTarget(u) == recommender.user_similarity[ret.student_id][u]

\* C11: in get_collaborative_scores, a course the target has not rated, for which
\* exactly one selected neighbour has a non-zero rating r and that neighbour's
\* similarity to the target is positive, is scored exactly r, whatever the value
\* of the similarity
C11_SingleRaterScoresItsRating ==
    ret.op = "get_collaborative_scores" =>
        \A c \in DOMAIN ret.scores :
            \A u \in RatingNeighbours(c) :
                (RatingNeighbours(c) = {u} /\ SimilarityToTarget(u) > 0)
                    => ret.scores[c] = Cell(recommender.user_item_matrix, u, c) * 100

\* a course scored 3.5 by its single rating neighbour, whose similarity to the
\* target is below 1 while another selected neighbour did not rate the course
C11_Witness ==
    /\ ret.op = "get_collaborative_scores"
    /\ \E c \in DOMAIN ret.scores :
         \E u \in RatingNeighbours(c) :
            /\ RatingNeighbours(c) = {u}
            /\ SimilarityToTarget(u) > 0
            /\ SimilarityToTarget(u) < 1000
            /\ Cell(recommender.user_item_matrix, u, c) = 35
            /\ ret.scores[c] = 3500
            /\ \E v \in RangeOf(ret.similar_users) \ {u} : SimilarityToTarget(v) > 0

\* ------------------------------------------------------------------ claims: availability

\* C12: no request changes which artifacts are loaded, and whatever requests came
\* before, a /predict-grade request made while the grade artifact is missing
\* ends with 503 without a call of predict, and a /recommendations request made
\* while the recommender artifact is missing ends with 503 without a call of
\* recommend
C12_MissingArtifactAnswers503 ==
    [][ /\ grade_predictor' = grade_predictor
        /\ recommender' = recommender
        /\ (ret'.op = "predict_grade" /\ ~grade_predictor.loaded)
               => (ret'.status = 503 /\ "predict" \notin ret'.calls)
        /\ (ret'.op = "recommendations" /\ ~recommender.loaded)
               => (ret'.status = 503 /\ "recommend" \notin ret'.calls)
        /\ (pc' = "built" => grade_predictor.loaded)
        /\ (pc' = "courses" => recommender.loaded) ]_vars

\* a 503 of /predict-grade in a process whose recommender is loaded
C12_Witness ==
    /\ ~grade_predictor.loaded
    /\ recommender.loaded
    /\ ret.op = "predict_grade"
    /\ ret.status = 503
    /\ ret.calls = {}

\* ------------------------------------------------------------------ claims: features

\* the eight history and interaction features are all 0
ZeroHistory(features) ==
    /\ features.hist_mean_grade = 0
    /\ features.hist_std_grade = 0
    /\ features.hist_course_count = 0
    /\ features.hist_avg_attendance = 0
    /\ features.hist_avg_completion = 0
    /\ features.total_interaction_value = 0
    /\ features.avg_interaction_value = 0
    /\ features.interaction_count = 0

\* C13: for a student with no completed enrollment and no interaction,
\* /predict-grade builds features whose hist_mean_grade, hist_std_grade,
\* hist_course_count, hist_avg_attendance, hist_avg_completion,
\* total_interaction_value, avg_interaction_value and interaction_count are 0,
\* and the call of predict on them returns a result: the request ends with 200
C13_NoHistoryBuildsZeros ==
    [][ /\ (pc' = "built" /\ locals'.op = "predict_grade"
               /\ locals'.enrollments = << >> /\ locals'.interactions = << >>)
            => ZeroHistory(locals'.features)
        /\ (pc = "built" /\ locals.op = "predict_grade"
               /\ locals.enrollments = << >> /\ locals.interactions = << >>)
            => /\ ret'.op = "predict_grade"
               /\ ret'.status = 200
               /\ ret'.features = locals.features
               /\ ret'.predicted_grade \in MinGrade..MaxGrade ]_vars

\* a 200 response for a student without history
C13_Witness ==
    /\ ret.op = "predict_grade"
    /\ ret.status = 200
    /\ ret.enrollments = << >>
    /\ ret.interactions = << >>
    /\ ZeroHistory(ret.features)
    /\ "predict" \in ret.calls

\* ------------------------------------------------------------------ claims: hybrid ranking

\* the value of a score mapping at a course, 0 when the course is absent
ScoreOrZero(scores, c) == IF c \in DOMAIN scores THEN scores[c] ELSE 0

\* four times the hybrid score of a course, exactly: the collaborative score
\* counts only when it is positive
FourTimesHybrid(c) ==
    LET cf == ScoreOrZero(ret.cf_scores, c)
    IN  ret.cf_weight * (IF cf > 0 THEN cf ELSE 0)
          + 4 * ret.cb_weight * ScoreOrZero(ret.cb_scores, c)

\* C14: recommend ranks exactly one entry per course id of the union of the key
\* sets of the collaborative and the content mapping, and the score of an entry
\* is cf_weight * (cf / 4.0 if cf > 0 else 0) + cb_weight * cb with an absent
\* score taken as 0, also for weights that do not sum to 1
C14_OneEntryPerCandidate ==
    ret.op = "recommend" =>
        LET candidates == (DOMAIN ret.cf_scores) \cup (DOMAIN ret.cb_scores)
            ids == [ i \in 1..Len(ret.result) |-> ret.result[i][1] ]
        IN  /\ DOMAIN ret.hybrid_scores = candidates
            /\ \A c \in candidates :
                  /\ 4 * ret.hybrid_scores[c] <= FourTimesHybrid(c)
                  /\ FourTimesHybrid(c) < 4 * ret.hybrid_scores[c] + 4
            /\ \A i \in 1..Len(ids) :
                  /\ ids[i] \in candidates
                  /\ ret.result[i][2] = ret.hybrid_scores[ids[i]]
                  /\ \A j \in 1..Len(ids) : ids[i] = ids[j] => i = j
            /\ ret.n >= Cardinality(candidates) => RangeOf(ids) = candidates

\* a full ranking under weights of sum 2, with a course that only the content
\* mapping has and a course with a positive collaborative score
C14_Witness ==
    /\ ret.op = "recommend"
    /\ ret.cf_weight + ret.cb_weight = 2000
    /\ Len(ret.result) = 3
    /\ \E c \in DOMAIN ret.cb_scores : c \notin DOMAIN ret.cf_scores
    /\ \E c \in DOMAIN ret.cf_scores :
         /\ ret.cf_scores[c] > 0
         /\ ret.hybrid_scores[c] > ret.cb_weight * ScoreOrZero(ret.cb_scores, c)
    /\ \E c \in DOMAIN ret.cf_scores : c \notin DOMAIN ret.cb_scores

\* C15: for a student with a row, the neighbours never contain the student and
\* are exactly the k other students of highest similarity (all the others when
\* there are fewer than k), also when another student's similarity equals the
\* student's similarity to itself and when that self-similarity is not the
\* maximum of the column
C15_NeighboursAreTopKOthers ==
    (ret.op = "get_collaborative_scores" /\ ret.student_id \in MatrixIndexIds) =>
        LET others == MatrixIndexIds \ {ret.student_id}
            selected == RangeOf(ret.similar_users)
        IN  /\ ret.student_id \notin selected
            /\ selected \subseteq others
            /\ Cardinality(selected) = Min(ret.k, Cardinality(others))
            /\ \A u \in selected, v \in others \ selected :
                  SimilarityToTarget(u) >= SimilarityToTarget(v)

\* the sum of rating * similarity over a set of students, for one course
RECURSIVE RatingTimesSimilarity(_, _)
RatingTimesSimilarity(S, c) ==
    IF S = {} THEN 0
    ELSE LET u == CHOOSE u \in S : TRUE
         IN  Cell(recommender.user_item_matrix, u, c) * 100 * SimilarityToTarget(u)
               + RatingTimesSimilarity(S \ {u}, c)

\* the sum of the similarities of a set of students to the target
RECURSIVE SimilarityOver(_)
SimilarityOver(S) ==
    IF S = {} THEN 0
    ELSE LET u == CHOOSE u \in S : TRUE
         IN  SimilarityToTarget(u) + SimilarityOver(S \ {u})

\* C16: for a student with a row, get_collaborative_scores has an entry for
\* exactly the courses whose cell in the student's row is 0; the entry is 0 when
\* no selected neighbour has a non-zero rating of the course or the
\* similarities of those who have sum to 0, and otherwise it is
\* sum(rating * similarity) / sum(similarity) over the selected neighbours with
\* a non-zero rating
C16_ScoresOfUnratedCourses ==
    (ret.op = "get_collaborative_scores" /\ ret.student_id \in MatrixIndexIds) =>
        /\ DOMAIN ret.scores =
              { c \in MatrixColumnIds :
                  Cell(recommender.user_item_matrix, ret.student_id, c) = 0 }
        /\ \A c \in DOMAIN ret.scores :
              IF RatingNeighbours(c) = {} \/ SimilarityOver(RatingNeighbours(c)) = 0
              THEN ret.scores[c] = 0
              ELSE ret.scores[c] = RatingTimesSimilarity(RatingNeighbours(c), c)
                                     \div SimilarityOver(RatingNeighbours(c))

\* a student who rated one course of two, whose other course gets the weighted
\* mean of two different ratings by neighbours of different similarity
C16_Witness ==
    /\ ret.op = "get_collaborative_scores"
    /\ ret.student_id \in MatrixIndexIds
    /\ \E c \in DOMAIN ret.scores, d \in MatrixColumnIds \ DOMAIN ret.scores :
         \E u, v \in RatingNeighbours(c) :
            /\ Cell(recommender.user_item_matrix, u, c)
                  < Cell(recommender.user_item_matrix, v, c)
            /\ SimilarityToTarget(u) # SimilarityToTarget(v)
            /\ ret.scores[c] > Cell(recommender.user_item_matrix, u, c) * 100
            /\ ret.scores[c] < Cell(recommender.user_item_matrix, v, c) * 100

\* ------------------------------------------------------------------ claims: content scores

\* C17: when at least one enrolled id is in the course-feature matrix, the key
\* set of the result of get_content_based_scores is the catalogue's ids minus
\* the enrolled ids
C17_ContentKeysAreUnenrolledCatalogue ==
    (ret.op = "get_content_based_scores"
        /\ ret.enrolled_courses \cap CatalogueIds # {})
      => DOMAIN ret.scores = CatalogueIds \ ret.enrolled_courses

\* an enrolled list with a catalogued and an uncatalogued course, scored with
\* similarities to the profile
C17_Witness ==
    /\ ret.op = "get_content_based_scores"
    /\ ret.enrolled_courses \cap CatalogueIds # {}
    /\ ret.enrolled_courses \ CatalogueIds # {}
    /\ Cardinality(DOMAIN ret.scores) = 2
    /\ \E c \in DOMAIN ret.scores : ret.scores[c] # DefaultScore

\* the completed enrollments of the request that have a grade
GradedEnrollments ==
    SelectSeq(locals.enrollments, LAMBDA e : ~IsNone(e.grade))

\* C18: in the features of /predict-grade, hist_mean_grade, hist_std_grade and
\* hist_course_count are computed over the same records, the completed
\* enrollments with a non-null grade: hist_course_count is their number, so a
\* completed enrollment without a grade is not counted, and hist_std_grade is 0
\* when there are fewer than 2 of them
C18_HistoryOverGradedEnrollments ==
    (pc = "built" /\ locals.op = "predict_grade") =>
        /\ locals.features.hist_course_count = Len(GradedEnrollments)
        /\ Len(GradedEnrollments) < 2 => locals.features.hist_std_grade = 0
        /\ Len(GradedEnrollments) = 0 => locals.features.hist_mean_grade = 0

\* ------------------------------------------------------------------ claims: feature vector

\* C19: the vector handed to the scaler has one element per name of the
\* artifact's trained feature-name list, in that list's order; element i is the
\* input's value for name i when the input has it and 0 otherwise; a missing
\* name raises no error and a key that is not in the list is ignored
C19_VectorFollowsTrainedNames ==
    ((ret.op = "predict" \/ (ret.op = "predict_grade" /\ ret.status = 200))
        /\ grade_predictor.loaded)
      => LET names == grade_predictor.feature_names
         IN  /\ Len(ret.feature_values) = Len(names)
             /\ \A i \in 1..Len(names) :
                   /\ names[i] \in DOMAIN ret.features
                         => ret.feature_values[i] = ret.features[names[i]]
                   /\ names[i] \notin DOMAIN ret.features
                         => ret.feature_values[i] = 0

\* a call with a dictionary that lacks a trained name and has a key outside
\* the list, for an artifact whose list is not in the order of the handler's
\* dictionary: the vector is (year, 0, credits)
C19_Witness ==
    /\ ret.op = "predict"
    /\ grade_predictor.feature_names = OlderFeatureNames
    /\ "shoe_size" \in DOMAIN ret.features
    /\ ret.feature_values = << 2, 0, 3 >>
    /\ ret.pred \in MinGrade..MaxGrade

\* ------------------------------------------------------------------ claims: frame

\* the result recorded for a call is the one its arguments and the artifacts
\* determine; the wrapped model's output for a vector is given with the call,
\* and a ranking is determined up to the iteration order of the candidate set
DeterminedByArguments(call) ==
    CASE call.op = "predict" ->
           LET r == predict(grade_predictor, call.features, call.raw)
           IN  /\ call.pred = r.pred
               /\ call.confidence_interval = r.confidence_interval
      [] call.op = "predict_batch" ->
           call.result = predict_batch(grade_predictor, call.features_list, call.raws)
      [] call.op = "get_collaborative_scores" ->
           call.scores = get_collaborative_scores(recommender, call.student_id, call.k)
      [] call.op = "get_content_based_scores" ->
           call.scores = get_content_based_scores(recommender, call.student_id,
                                                  call.enrolled_courses)
      [] call.op = "recommend" ->
           LET scores == candidate_scores(recommender, call.student_id,
                                          call.enrolled_courses,
                                          call.cf_weight, call.cb_weight)
           IN  \E order \in Orders(DOMAIN scores) :
                 call.result = recommend(scores, call.n, order)
      [] call.op = "get_popular_courses" ->
           call.result = get_popular_courses(recommender, call.n)
      [] OTHER -> TRUE

\* C20: no call of predict, predict_batch, get_collaborative_scores,
\* get_content_based_scores, recommend or get_popular_courses changes the loaded
\* artifacts; between two calls nothing but the artifacts is kept, and the
\* result of a call is the one that its arguments and the artifacts determine,
\* whatever calls were made before it
C20_CallsLeaveArtifactsAlone ==
    [][ /\ grade_predictor' = grade_predictor
        /\ recommender' = recommender
        /\ pc' = "idle" => (ret' = NoCall /\ locals' = NoLocals)
        /\ pc' = "done" => DeterminedByArguments(ret') ]_vars

\* a recommend call has returned its ranking and both artifacts are loaded
C20_Witness ==
    /\ pc = "done"
    /\ ret.op = "recommend"
    /\ Len(ret.result) = 3
    /\ grade_predictor \in ServiceGradeArtifacts
    /\ recommender \in ServiceRecommenders

\* ------------------------------------------------------------------ claims: enrolled courses

\* the course ids of a ranking
RankedIds(result) == { result[i][1] : i \in 1..Len(result) }

\* C21: when at least one course of the enrolled list passed to recommend is in
\* the course-feature matrix, no course of that list is in recommend's result,
\* also a course the student is enrolled in without having completed it, whose
\* cell in the user-item matrix is 0
C21_NoEnrolledCourseRecommended ==
    (ret.op = "recommend" /\ ret.enrolled_courses \cap CatalogueIds # {})
      => RankedIds(ret.result) \cap ret.enrolled_courses = {}

\* ------------------------------------------------------------------ claims: cold start

\* every entry of a ranking carries the score
AllScored(result, score) == \A i \in 1..Len(result) : result[i][2] = score

\* C22: for a student without a row in the user-item matrix and with an empty
\* enrolled list, when the course-feature matrix has a course and n >= 1,
\* recommend returns min(n, number of catalogued courses) entries that all carry
\* the score cb_weight * 0.5, so /recommendations does not call the popularity
\* fallback for that student
C22_ColdStartRanksCatalogue ==
    /\ (ret.op = "recommend" /\ ret.student_id \notin MatrixIndexIds
           /\ ret.enrolled_courses = {} /\ CatalogueIds # {} /\ ret.n >= 1)
         => /\ Len(ret.result) = Min(ret.n, Cardinality(CatalogueIds))
            /\ AllScored(ret.result, ret.cb_weight * 500)
    /\ (ret.op = "recommendations" /\ ret.status = 200
           /\ ret.student_id \notin MatrixIndexIds
           /\ ret.enrolled_course_ids = {} /\ CatalogueIds # {} /\ ret.n >= 1)
         => /\ Len(ret.ranked) = Min(ret.n, Cardinality(CatalogueIds))
            /\ AllScored(ret.ranked, DefaultCbWeight * 500)
            /\ "get_popular_courses" \notin ret.calls

\* a /recommendations response for such a student: two entries of score 0.2,
\* found by recommend alone
C22_Witness ==
    /\ ret.op = "recommendations"
    /\ ret.status = 200
    /\ ret.student_id \notin MatrixIndexIds
    /\ ret.enrolled_course_ids = {}
    /\ ret.n = 2
    /\ Len(ret.ranked) = 2
    /\ AllScored(ret.ranked, 200000)
    /\ Len(ret.recommendations) >= 1
    /\ \A i \in 1..Len(ret.recommendations) : ret.recommendations[i].score = 200000
    /\ ret.calls \cap {"recommend", "get_popular_courses"} = {"recommend"}

\* ------------------------------------------------------------------ claims: ownership

\* C23: with the artifact loaded, a /predict-grade or /recommendations request
\* whose student_id is not the authenticated user's id ends with status 403,
\* not 500, without a read of the record store and without a call of predict
\* or recommend
C23_ForeignStudentIs403 ==
    (ret.op \in {"predict_grade", "recommendations"}
        /\ "requested" \in DOMAIN ret
        /\ ret.requested.student_id # ret.requested.user_id)
      => /\ ret.status = 403
         /\ ret.reads = {}
         /\ ret.calls = {}

====
